---- MODULE Spec2Model ----
(***************************************************************************)
(* Bento Blocks rules engine (src/web-app/bento_blocks.js) and the state   *)
(* its presentation layer keeps (src/web-app/main.js).                     *)
(*                                                                         *)
(* The engine is a set of pure functions over a board value; each is an    *)
(* operator below, written as the code computes it.  The state of the      *)
(* program is the board reference its caller holds and the outcome of the  *)
(* last engine call; every engine call is one action.                      *)
(*                                                                         *)
(* Three specifications share the variables:                               *)
(*   Spec       any caller of the engine: createBoard, startGame and       *)
(*              placePiece with any arguments, in any order;               *)
(*   SpecUI     the page of main.js: initializeGame, then the player's     *)
(*              gestures (select, turn, flip, click on a cell);            *)
(*   SpecShape  rotatePiece and flipPiece applied in succession to a shape *)
(*              of the catalog.                                            *)
(* Each leaves the variables of the others at their initial values.        *)
(*                                                                         *)
(* Not modelled: a player's display colour, the move's timestamp           *)
(* (Date.now(), compared nowhere) and the DOM.  A piece's shape field is   *)
(* always PIECE_SHAPES[piece.id] (getAllPieces), so it is looked up there. *)
(***************************************************************************)
EXTENDS Integers, Sequences, FiniteSets, TLC

\* ------------------------------------------------------------------------
\* Bounds of the model
\* ------------------------------------------------------------------------

\* side of the square board (BOARD_SIZE is 20 in the source)
BOARD_SIZE == 3

\* each player holds the first NumPieces entries of the catalog (21 in the source)
NumPieces == 2

\* successful placements explored from one createBoard
MaxMoves == 2

\* transformations applied in succession to one shape of the catalog
MaxApplied == 5

\* quarter turns and flips stored on the pieces of the page's board, in all
MaxTurns == 2

\* successful clicks explored on the page from one initializeGame
MaxClicks == 5

\* ------------------------------------------------------------------------
\* Constants of the program
\* ------------------------------------------------------------------------

PLAYER_1 == 1
PLAYER_2 == 2
PLAYER_3 == 3
PLAYER_4 == 4

WAITING == "waiting"
IN_PROGRESS == "in_progress"
FINISHED == "finished"

\* the rotation of a piece is kept in 0..3 by main.js ((rotation + 1) % 4), and
\* canPlayerMove tries 0..3
Rotations == 0..3

\* Object.keys(PIECE_SHAPES): the catalog's keys in insertion order
PieceOrder ==
  << "I1", "I2", "I3", "L3", "I4", "L4", "O4", "S4", "T4", "I5", "L5",
     "N5", "P5", "T5", "U5", "V5", "W5", "X5", "Y5", "Z5", "F5" >>

PIECE_SHAPES ==
  [ I1 |-> << <<0, 0>> >>,
    I2 |-> << <<0, 0>>, <<1, 0>> >>,
    I3 |-> << <<0, 0>>, <<1, 0>>, <<2, 0>> >>,
    L3 |-> << <<0, 0>>, <<1, 0>>, <<0, 1>> >>,
    I4 |-> << <<0, 0>>, <<1, 0>>, <<2, 0>>, <<3, 0>> >>,
    L4 |-> << <<0, 0>>, <<1, 0>>, <<2, 0>>, <<0, 1>> >>,
    O4 |-> << <<0, 0>>, <<1, 0>>, <<0, 1>>, <<1, 1>> >>,
    S4 |-> << <<0, 0>>, <<1, 0>>, <<1, 1>>, <<2, 1>> >>,
    T4 |-> << <<0, 0>>, <<1, 0>>, <<2, 0>>, <<1, 1>> >>,
    I5 |-> << <<0, 0>>, <<1, 0>>, <<2, 0>>, <<3, 0>>, <<4, 0>> >>,
    L5 |-> << <<0, 0>>, <<1, 0>>, <<2, 0>>, <<3, 0>>, <<0, 1>> >>,
    N5 |-> << <<0, 0>>, <<1, 0>>, <<1, 1>>, <<2, 1>>, <<3, 1>> >>,
    P5 |-> << <<0, 0>>, <<1, 0>>, <<0, 1>>, <<1, 1>>, <<0, 2>> >>,
    T5 |-> << <<0, 0>>, <<1, 0>>, <<2, 0>>, <<1, 1>>, <<1, 2>> >>,
    U5 |-> << <<0, 0>>, <<2, 0>>, <<0, 1>>, <<1, 1>>, <<2, 1>> >>,
    V5 |-> << <<0, 0>>, <<0, 1>>, <<0, 2>>, <<1, 2>>, <<2, 2>> >>,
    W5 |-> << <<0, 0>>, <<0, 1>>, <<1, 1>>, <<1, 2>>, <<2, 2>> >>,
    X5 |-> << <<1, 0>>, <<0, 1>>, <<1, 1>>, <<2, 1>>, <<1, 2>> >>,
    Y5 |-> << <<0, 0>>, <<1, 0>>, <<1, 1>>, <<1, 2>>, <<1, 3>> >>,
    Z5 |-> << <<0, 0>>, <<1, 0>>, <<1, 1>>, <<1, 2>>, <<2, 2>> >>,
    F5 |-> << <<1, 0>>, <<2, 0>>, <<0, 1>>, <<1, 1>>, <<1, 2>> >> ]

\* ------------------------------------------------------------------------
\* Array helpers
\* ------------------------------------------------------------------------

\* Math.min(...xs) of a non-empty array of integers
RECURSIVE MathMin(_)
MathMin(xs) ==
  IF Len(xs) = 1 THEN xs[1]
  ELSE LET m == MathMin(Tail(xs)) IN IF xs[1] < m THEN xs[1] ELSE m

\* Math.max(...xs) of a non-empty array of integers
RECURSIVE MathMax(_)
MathMax(xs) ==
  IF Len(xs) = 1 THEN xs[1]
  ELSE LET m == MathMax(Tail(xs)) IN IF xs[1] > m THEN xs[1] ELSE m

\* players.map(p => p.id)
PlayerIds(players) == [i \in 1..Len(players) |-> players[i].id]

\* playerIds.indexOf(id): the 0-based index of the first match, or -1
IndexOf(ids, id) ==
  IF \E i \in 1..Len(ids) : ids[i] = id
  THEN (CHOOSE i \in 1..Len(ids) :
          ids[i] = id /\ \A j \in 1..(i - 1) : ids[j] # id) - 1
  ELSE -1

\* board.players.find(p => p.id === playerId) finds a player
HasPlayer(b, playerId) == IndexOf(PlayerIds(b.players), playerId) # -1

\* board.players.find(p => p.id === playerId), when it finds one
FindPlayer(b, playerId) == b.players[IndexOf(PlayerIds(b.players), playerId) + 1]

\* array.slice(0, n)
Slice(s, n) == [i \in 1..(IF n < Len(s) THEN n ELSE Len(s)) |-> s[i]]

\* ------------------------------------------------------------------------
\* Board construction
\* ------------------------------------------------------------------------

getAllPieces ==
  [i \in 1..NumPieces |->
     [id |-> PieceOrder[i], used |-> FALSE, rotation |-> 0, flipped |-> FALSE]]

createBoard ==
  [ grid |-> [r \in 0..(BOARD_SIZE - 1) |-> [c \in 0..(BOARD_SIZE - 1) |-> 0]],
    size |-> BOARD_SIZE,
    players |-> << [id |-> PLAYER_1, score |-> 0, pieces |-> getAllPieces],
                   [id |-> PLAYER_2, score |-> 0, pieces |-> getAllPieces],
                   [id |-> PLAYER_3, score |-> 0, pieces |-> getAllPieces],
                   [id |-> PLAYER_4, score |-> 0, pieces |-> getAllPieces] >>,
    currentPlayer |-> PLAYER_1,
    status |-> WAITING,
    moveHistory |-> << >>,
    \* null is the empty sequence, a move m is << m >>
    lastMove |-> << >> ]

\* startGame throws when !board || playerCount < 2 || playerCount > 4
\* (absent: the caller passed null or undefined for the board)
startGameThrows(absent, playerCount) ==
  absent \/ playerCount < 2 \/ playerCount > 4

\* the board startGame returns when it does not throw
startGame(b, playerCount) ==
  [b EXCEPT !.players = Slice(b.players, playerCount),
            !.currentPlayer = PLAYER_1,
            !.status = IN_PROGRESS]

\* ------------------------------------------------------------------------
\* Geometry
\* ------------------------------------------------------------------------

isValidPosition(row, col, b) ==
  row >= 0 /\ row < b.size /\ col >= 0 /\ col < b.size

\* isCellEmpty taking every cell of the board for empty
isCellEmptyOnBoard(row, col, b) == isValidPosition(row, col, b)

isCellEmpty(row, col, b) ==
  IF ~isValidPosition(row, col, b) THEN FALSE ELSE b.grid[row][col] = 0

\* rotatePiece moving the rows back to 0 but not the columns
rotatePieceRowsOnly(shape) ==
  LET rotated == [i \in 1..Len(shape) |-> << shape[i][2], -shape[i][1] >>]
      minX == MathMin([i \in 1..Len(rotated) |-> rotated[i][1]])
  IN [i \in 1..Len(rotated) |-> << rotated[i][1] - minX, rotated[i][2] >>]

rotatePiece(shape) ==
  LET rotated == [i \in 1..Len(shape) |-> << shape[i][2], -shape[i][1] >>]
      minX == MathMin([i \in 1..Len(rotated) |-> rotated[i][1]])
      minY == MathMin([i \in 1..Len(rotated) |-> rotated[i][2]])
  IN [i \in 1..Len(rotated) |-> << rotated[i][1] - minX, rotated[i][2] - minY >>]

\* flipPiece mirroring about the row after the last instead of moving back to 0
flipPieceAboutNextRow(shape) ==
  LET maxX == MathMax([i \in 1..Len(shape) |-> shape[i][1]])
  IN [i \in 1..Len(shape) |-> << maxX + 1 - shape[i][1], shape[i][2] >>]

flipPiece(shape) ==
  LET flipped == [i \in 1..Len(shape) |-> << -shape[i][1], shape[i][2] >>]
      minX == MathMin([i \in 1..Len(flipped) |-> flipped[i][1]])
      minY == MathMin([i \in 1..Len(flipped) |-> flipped[i][2]])
  IN [i \in 1..Len(flipped) |-> << flipped[i][1] - minX, flipped[i][2] - minY >>]

\* the loop "for (i = 0; i < piece.rotation; i++) shape = rotatePiece(shape)"
RECURSIVE RotateTimes(_, _)
RotateTimes(shape, n) ==
  IF n <= 0 THEN shape ELSE RotateTimes(rotatePiece(shape), n - 1)

\* getTransformedShape on the fields of a piece it reads
TransformShape(shape, rotation, flipped) ==
  LET rotated == RotateTimes(shape, rotation)
  IN IF flipped THEN flipPiece(rotated) ELSE rotated

\* TransformShape of every catalog shape in play, computed once
TransformedShapes ==
  [id \in {PieceOrder[i] : i \in 1..NumPieces} |->
     [rotation \in Rotations |->
        [flipped \in BOOLEAN |-> TransformShape(PIECE_SHAPES[id], rotation, flipped)]]]

getTransformedShape(piece) ==
  IF piece.id \in DOMAIN TransformedShapes /\ piece.rotation \in Rotations
  THEN TransformedShapes[piece.id][piece.rotation][piece.flipped]
  ELSE TransformShape(PIECE_SHAPES[piece.id], piece.rotation, piece.flipped)

\* ------------------------------------------------------------------------
\* Placement validation
\* ------------------------------------------------------------------------

\* touchesCorner testing the anchor cell only
touchesCornerAnchorOnly(shape, row, col, b) ==
  row \in {0, b.size - 1} /\ col \in {0, b.size - 1}

touchesCorner(shape, row, col, b) ==
  LET corners == << <<0, 0>>, <<0, b.size - 1>>, <<b.size - 1, 0>>,
                    <<b.size - 1, b.size - 1>> >>
  IN \E i \in 1..Len(shape) : \E k \in 1..Len(corners) :
       /\ row + shape[i][1] = corners[k][1]
       /\ col + shape[i][2] = corners[k][2]

touchesPlayerCorner(row, col, b, playerId) ==
  LET corners == << <<-1, -1>>, <<-1, 1>>, <<1, -1>>, <<1, 1>> >>
  IN \E k \in 1..Len(corners) :
       /\ isValidPosition(row + corners[k][1], col + corners[k][2], b)
       /\ b.grid[row + corners[k][1]][col + corners[k][2]] = playerId

\* touchesPlayerEdge rejecting an edge shared with any player's cell
touchesAnyEdge(row, col, b, playerId) ==
  LET edges == << <<-1, 0>>, <<1, 0>>, <<0, -1>>, <<0, 1>> >>
  IN \E k \in 1..Len(edges) :
       /\ isValidPosition(row + edges[k][1], col + edges[k][2], b)
       /\ b.grid[row + edges[k][1]][col + edges[k][2]] # 0

\* touchesPlayerEdge missing the neighbour below
touchesPlayerEdgeThreeSides(row, col, b, playerId) ==
  LET edges == << <<-1, 0>>, <<0, -1>>, <<0, 1>> >>
  IN \E k \in 1..Len(edges) :
       /\ isValidPosition(row + edges[k][1], col + edges[k][2], b)
       /\ b.grid[row + edges[k][1]][col + edges[k][2]] = playerId

touchesPlayerEdge(row, col, b, playerId) ==
  LET edges == << <<-1, 0>>, <<1, 0>>, <<0, -1>>, <<0, 1>> >>
  IN \E k \in 1..Len(edges) :
       /\ isValidPosition(row + edges[k][1], col + edges[k][2], b)
       /\ b.grid[row + edges[k][1]][col + edges[k][2]] = playerId

\* player.pieces.filter(p => p.used).length
PlacedCount(player) ==
  Cardinality({i \in 1..Len(player.pieces) : player.pieces[i].used})

\* isValidPlacement without the test of the orthogonal neighbours
isValidPlacementNoEdgeTest(b, shape, row, col, playerId) ==
  LET player == FindPlayer(b, playerId)
  IN IF PlacedCount(player) = 0
     THEN touchesCorner(shape, row, col, b)
     ELSE \E i \in 1..Len(shape) :
            touchesPlayerCorner(row + shape[i][1], col + shape[i][2], b, playerId)

isValidPlacement(b, shape, row, col, playerId) ==
  LET player == FindPlayer(b, playerId)
  IN IF PlacedCount(player) = 0
     THEN touchesCorner(shape, row, col, b)
     ELSE LET touchesC == \E i \in 1..Len(shape) :
                touchesPlayerCorner(row + shape[i][1], col + shape[i][2], b, playerId)
              touchesE == \E i \in 1..Len(shape) :
                touchesPlayerEdge(row + shape[i][1], col + shape[i][2], b, playerId)
          IN touchesC /\ ~touchesE

canPlacePiece(b, piece, row, col, playerId) ==
  IF piece.used THEN FALSE
  ELSE LET shape == getTransformedShape(piece)
       IN IF ~HasPlayer(b, playerId) THEN FALSE
          ELSE IF \E i \in 1..Len(shape) :
                    \/ ~isValidPosition(row + shape[i][1], col + shape[i][2], b)
                    \/ ~isCellEmpty(row + shape[i][1], col + shape[i][2], b)
               THEN FALSE
               ELSE isValidPlacement(b, shape, row, col, playerId)

\* ------------------------------------------------------------------------
\* Mutation and turn order
\* ------------------------------------------------------------------------

\* getNextPlayer counting on from the id instead of walking the player list
getNextPlayerById(b, currentPlayerId) == currentPlayerId + 1

\* getNextPlayer staying on the last player of the list instead of wrapping
getNextPlayerNoWrap(b, currentPlayerId) ==
  LET playerIds == PlayerIds(b.players)
      currentIndex == IndexOf(playerIds, currentPlayerId)
  IN playerIds[MathMin(<< currentIndex + 2, Len(playerIds) >>)]

getNextPlayer(b, currentPlayerId) ==
  LET playerIds == PlayerIds(b.players)
      currentIndex == IndexOf(playerIds, currentPlayerId)
      nextIndex == (currentIndex + 1) % Len(playerIds)
  IN playerIds[nextIndex + 1]

\* placePiece trusting the caller's earlier check, refusing only a used piece
placePieceThrowsUsedOnly(b, piece, row, col, playerId) == piece.used

\* placePiece throws 'Invalid piece placement'
placePieceThrows(b, piece, row, col, playerId) ==
  ~canPlacePiece(b, piece, row, col, playerId)

\* newGrid after "for ([dx, dy] of shape) newGrid[row + dx][col + dy] = playerId"
StampGrid(grid, shape, row, col, playerId) ==
  [r \in DOMAIN grid |-> [c \in DOMAIN grid[r] |->
     IF \E i \in 1..Len(shape) : r = row + shape[i][1] /\ c = col + shape[i][2]
     THEN playerId ELSE grid[r][c]]]

\* newPlayers marking the piece used in every player's set
UpdatePlayersEveryone(players, piece, shape, playerId) ==
  [i \in 1..Len(players) |->
     [players[i] EXCEPT
        !.pieces = [k \in 1..Len(players[i].pieces) |->
                      IF players[i].pieces[k].id = piece.id
                      THEN [players[i].pieces[k] EXCEPT !.used = TRUE]
                      ELSE players[i].pieces[k]],
        !.score = IF players[i].id = playerId
                  THEN players[i].score + Len(shape) ELSE players[i].score]]

\* newPlayers with the score raised by one for the piece, not by its cells
UpdatePlayersCountPieces(players, piece, shape, playerId) ==
  [i \in 1..Len(players) |->
     IF players[i].id = playerId
     THEN [players[i] EXCEPT
             !.pieces = [k \in 1..Len(players[i].pieces) |->
                           IF players[i].pieces[k].id = piece.id
                           THEN [players[i].pieces[k] EXCEPT !.used = TRUE]
                           ELSE players[i].pieces[k]],
             !.score = players[i].score + 1]
     ELSE players[i]]

\* newPlayers: the placing player's piece of that id marked used, the score raised
UpdatePlayers(players, piece, shape, playerId) ==
  [i \in 1..Len(players) |->
     IF players[i].id = playerId
     THEN [players[i] EXCEPT
             !.pieces = [k \in 1..Len(players[i].pieces) |->
                           IF players[i].pieces[k].id = piece.id
                           THEN [players[i].pieces[k] EXCEPT !.used = TRUE]
                           ELSE players[i].pieces[k]],
             !.score = players[i].score + Len(shape)]
     ELSE players[i]]

\* placePiece keeping the new move as the whole history
placePieceLastMoveOnly(b, piece, row, col, playerId) ==
  LET shape == getTransformedShape(piece)
      move == [playerId |-> playerId, pieceId |-> piece.id,
               position |-> <<row, col>>, shape |-> shape]
  IN [b EXCEPT !.grid = StampGrid(b.grid, shape, row, col, playerId),
               !.players = UpdatePlayers(b.players, piece, shape, playerId),
               !.moveHistory = <<move>>,
               !.lastMove = <<move>>,
               !.currentPlayer = getNextPlayer(b, playerId)]

\* the board placePiece returns when it does not throw
placePiece(b, piece, row, col, playerId) ==
  LET shape == getTransformedShape(piece)
      move == [playerId |-> playerId, pieceId |-> piece.id,
               position |-> <<row, col>>, shape |-> shape]
  IN [b EXCEPT !.grid = StampGrid(b.grid, shape, row, col, playerId),
               !.players = UpdatePlayers(b.players, piece, shape, playerId),
               !.moveHistory = Append(b.moveHistory, move),
               !.lastMove = <<move>>,
               !.currentPlayer = getNextPlayer(b, playerId)]

\* ------------------------------------------------------------------------
\* Move availability and termination
\* ------------------------------------------------------------------------

\* canPlayerMove trying each piece only as it is turned and flipped now
canPlayerMoveAsStored(b, playerId) ==
  IF ~HasPlayer(b, playerId) THEN FALSE
  ELSE LET player == FindPlayer(b, playerId)
       IN \E k \in 1..Len(player.pieces) :
            /\ ~player.pieces[k].used
            /\ \E row \in 0..(b.size - 1) : \E col \in 0..(b.size - 1) :
                 canPlacePiece(b, player.pieces[k], row, col, playerId)

canPlayerMove(b, playerId) ==
  IF ~HasPlayer(b, playerId) THEN FALSE
  ELSE LET player == FindPlayer(b, playerId)
       IN \E k \in 1..Len(player.pieces) :
            /\ ~player.pieces[k].used
            /\ \E rotation \in Rotations : \E flipped \in 0..1 :
                 \E row \in 0..(b.size - 1) : \E col \in 0..(b.size - 1) :
                   canPlacePiece(b, [player.pieces[k] EXCEPT
                                       !.rotation = rotation,
                                       !.flipped = (flipped = 1)],
                                 row, col, playerId)

\* isGameOver ending the game as soon as one player has no move
isGameOverSomeoneStuck(b) ==
  IF b.status # IN_PROGRESS THEN b.status = FINISHED
  ELSE \E i \in 1..Len(b.players) : ~canPlayerMove(b, b.players[i].id)

isGameOver(b) ==
  IF b.status # IN_PROGRESS THEN b.status = FINISHED
  ELSE ~\E i \in 1..Len(b.players) : canPlayerMove(b, b.players[i].id)

\* array.filter(keep): the kept elements in their order
RECURSIVE Filter(_, _)
Filter(s, keep) ==
  IF s = << >> THEN << >>
  ELSE IF keep[1] THEN << s[1] >> \o Filter(Tail(s), Tail(keep))
       ELSE Filter(Tail(s), Tail(keep))

\* getWinner returning only the first player with the highest score
getWinnerFirstOnly(b) ==
  IF ~isGameOver(b) THEN << >>
  ELSE LET maxScore == MathMax([i \in 1..Len(b.players) |-> b.players[i].score])
       IN << << b.players[CHOOSE i \in 1..Len(b.players) :
                             /\ b.players[i].score = maxScore
                             /\ \A j \in 1..(i - 1) : b.players[j].score # maxScore] >> >>

\* null is the empty sequence, an array of winners ws is << ws >>
getWinner(b) ==
  IF ~isGameOver(b) THEN << >>
  ELSE LET maxScore == MathMax([i \in 1..Len(b.players) |-> b.players[i].score])
       IN << Filter(b.players,
                    [i \in 1..Len(b.players) |-> b.players[i].score = maxScore]) >>

\* ------------------------------------------------------------------------
\* State: the board the caller holds, and how the last engine call ended
\* ------------------------------------------------------------------------

VARIABLES
  board,          \* the board the caller holds (gameBoard in main.js), with
                  \* the piece objects reachable from it as they are now
  outcome,        \* how the last engine call or click ended
  selectedPiece,  \* main.js: the piece the player picked, or null
  currentPlayer,  \* main.js: the player whose pieces the page shows
  catalogId,      \* SpecShape: the catalog shape the succession started from
  cells,          \* SpecShape: the offsets after the transformations so far
  applied         \* SpecShape: the transformations applied so far, in order

vars == << board, outcome, selectedPiece, currentPlayer, catalogId, cells, applied >>

\* the variables of the page
pageVars == << selectedPiece, currentPlayer >>

\* the variables of a succession of shape transformations
shapeVars == << catalogId, cells, applied >>

\* how an engine call ends
OK == "ok"
THROWN == "thrown"
\* handleBoardClick showed an error message and placed nothing
REFUSED == "refused"

\* the piece objects a caller can hold: those of the board it holds and those of
\* earlier boards (placePiece copies the piece it marks used, so the object of
\* an earlier board keeps used = false), turned and flipped as the caller likes
CallerPieces ==
  LET held == {board.players[i].pieces[k] :
                 i \in 1..Len(board.players), k \in 1..NumPieces}
               \cup {getAllPieces[k] : k \in 1..NumPieces}
  IN {[p EXCEPT !.rotation = r, !.flipped = f] :
        p \in held, r \in Rotations, f \in BOOLEAN}

Coords == 0..(BOARD_SIZE - 1)

\* the player ids a caller passes: player 3 is unknown to a two-player board
PlayerArgs == {PLAYER_1, PLAYER_2, PLAYER_3}

PlayerCounts == 1..5

\* let selectedPiece = null; let currentPlayer = 1
PageLoaded ==
  /\ selectedPiece = << >>
  /\ currentPlayer = 1

\* no transformation applied yet, to the first shape of the catalog
ShapeUntouched ==
  /\ catalogId = PieceOrder[1]
  /\ cells = PIECE_SHAPES[PieceOrder[1]]
  /\ applied = << >>

Init ==
  /\ board = createBoard
  /\ outcome = OK
  /\ PageLoaded
  /\ ShapeUntouched

\* board = BentoBlocks.createBoard()
CreateBoard ==
  /\ board' = createBoard
  /\ outcome' = OK
  /\ UNCHANGED << pageVars, shapeVars >>

\* board = BentoBlocks.startGame(board or null, playerCount): the caller's
\* reference is replaced by the result, or left alone when startGame throws
StartGame ==
  \/ \E playerCount \in PlayerCounts :
       /\ ~startGameThrows(FALSE, playerCount)
       /\ board' = startGame(board, playerCount)
       /\ outcome' = OK
       /\ UNCHANGED << pageVars, shapeVars >>
  \/ /\ ~\A absent \in BOOLEAN, playerCount \in PlayerCounts :
           ~startGameThrows(absent, playerCount)
     /\ outcome' = THROWN
     /\ UNCHANGED << board, pageVars, shapeVars >>

\* board = BentoBlocks.placePiece(board, piece, row, col, playerId): the caller's
\* reference is replaced by the result, or left alone when placePiece throws
PlacePiece ==
  \/ \E piece \in CallerPieces, row \in Coords, col \in Coords,
        playerId \in PlayerArgs :
       /\ Len(board.moveHistory) < MaxMoves
       /\ ~placePieceThrows(board, piece, row, col, playerId)
       /\ board' = placePiece(board, piece, row, col, playerId)
       /\ outcome' = OK
       /\ UNCHANGED << pageVars, shapeVars >>
  \/ /\ ~\A piece \in CallerPieces, row \in Coords, col \in Coords,
           playerId \in PlayerArgs :
           ~placePieceThrows(board, piece, row, col, playerId)
     /\ outcome' = THROWN
     /\ UNCHANGED << board, pageVars, shapeVars >>

Next ==
  \/ CreateBoard
  \/ StartGame
  \/ PlacePiece

Spec == Init /\ [][Next]_vars

\* ------------------------------------------------------------------------
\* The page (main.js): initializeGame, then the player's gestures
\* ------------------------------------------------------------------------

\* selectedPiece refers to a piece object of the player whose pieces the page
\* shows (createPiecesUI builds the elements from that player's pieces, and
\* handleBoardClick clears the selection before it changes currentPlayer):
\* null is the empty sequence, the k-th piece of that player is << k >>
ShownPieces == FindPlayer(board, currentPlayer).pieces

\* the quarter turns and flips stored on the first n of pieces, summed
RECURSIVE TurnsOfPieces(_, _)
TurnsOfPieces(pieces, n) ==
  IF n = 0 THEN 0
  ELSE TurnsOfPieces(pieces, n - 1)
         + pieces[n].rotation + (IF pieces[n].flipped THEN 1 ELSE 0)

\* the same over the first n players
RECURSIVE TurnsOfPlayers(_, _)
TurnsOfPlayers(players, n) ==
  IF n = 0 THEN 0
  ELSE TurnsOfPlayers(players, n - 1)
         + TurnsOfPieces(players[n].pieces, Len(players[n].pieces))

\* the page is explored up to MaxClicks placements and MaxTurns stored turns
GesturesLeft == Len(board.moveHistory) < MaxClicks

TurnsLeft ==
  /\ GesturesLeft
  /\ TurnsOfPlayers(board.players, Len(board.players)) < MaxTurns

\* the board with the k-th piece of the shown player written in place
WithShownPiece(k, piece) ==
  [board EXCEPT !.players =
     [i \in 1..Len(board.players) |->
        IF board.players[i].id = currentPlayer
        THEN [board.players[i] EXCEPT !.pieces[k] = piece]
        ELSE board.players[i]]]

\* gameBoard = startGame(createBoard(), 4)
InitializeGame ==
  /\ board = startGame(createBoard, 4)
  /\ outcome = OK
  /\ PageLoaded
  /\ ShapeUntouched

\* click on a piece of the shown player: selectPiece(piece)
SelectPiece ==
  \E k \in 1..Len(ShownPieces) :
    /\ GesturesLeft
    /\ ~ShownPieces[k].used
    /\ selectedPiece' = << k >>
    /\ UNCHANGED << board, outcome, currentPlayer, shapeVars >>

\* right click on a piece of the shown player: rotatePiece(piece) writes
\* piece.rotation on the piece object of the board
RotatePiece ==
  \E k \in 1..Len(ShownPieces) :
    /\ TurnsLeft
    /\ ~ShownPieces[k].used
    /\ board' = WithShownPiece(k, [ShownPieces[k] EXCEPT
                                     !.rotation = (ShownPieces[k].rotation + 1) % 4])
    /\ UNCHANGED << outcome, pageVars, shapeVars >>

\* double click on a piece of the shown player: flipPiece(piece) writes
\* piece.flipped on the piece object of the board
FlipPiece ==
  \E k \in 1..Len(ShownPieces) :
    /\ TurnsLeft
    /\ ~ShownPieces[k].used
    /\ board' = WithShownPiece(k, [ShownPieces[k] EXCEPT
                                     !.flipped = ~ShownPieces[k].flipped])
    /\ UNCHANGED << outcome, pageVars, shapeVars >>

\* handleBoardClick leaving the page's currentPlayer as it was after a
\* placement
HandleBoardClickKeepsPlayer ==
  \/ \E row \in Coords, col \in Coords :
       /\ GesturesLeft
       /\ selectedPiece # << >>
       /\ canPlacePiece(board, ShownPieces[selectedPiece[1]], row, col, currentPlayer)
       /\ board' = placePiece(board, ShownPieces[selectedPiece[1]], row, col,
                              currentPlayer)
       /\ selectedPiece' = << >>
       /\ currentPlayer' = currentPlayer
       /\ outcome' = OK
       /\ UNCHANGED shapeVars
  \/ /\ IF selectedPiece = << >> THEN TRUE
        ELSE ~\A row \in Coords, col \in Coords :
                canPlacePiece(board, ShownPieces[selectedPiece[1]], row, col,
                              currentPlayer)
     /\ outcome' = REFUSED
     /\ UNCHANGED << board, pageVars, shapeVars >>

\* click on the cell (row, col): handleBoardClick(row, col); a click with no
\* piece selected or on a cell canPlacePiece refuses only shows a message
HandleBoardClick ==
  \/ \E row \in Coords, col \in Coords :
       /\ GesturesLeft
       /\ selectedPiece # << >>
       /\ canPlacePiece(board, ShownPieces[selectedPiece[1]], row, col, currentPlayer)
       /\ board' = placePiece(board, ShownPieces[selectedPiece[1]], row, col,
                              currentPlayer)
       /\ selectedPiece' = << >>
       /\ currentPlayer' = getNextPlayer(board', currentPlayer)
       /\ outcome' = OK
       /\ UNCHANGED shapeVars
  \/ /\ IF selectedPiece = << >> THEN TRUE
        ELSE ~\A row \in Coords, col \in Coords :
                canPlacePiece(board, ShownPieces[selectedPiece[1]], row, col,
                              currentPlayer)
     /\ outcome' = REFUSED
     /\ UNCHANGED << board, pageVars, shapeVars >>

NextUI ==
  \/ SelectPiece
  \/ RotatePiece
  \/ FlipPiece
  \/ HandleBoardClick

SpecUI == InitializeGame /\ [][NextUI]_vars

\* ------------------------------------------------------------------------
\* Transformations of a shape, applied in succession
\* ------------------------------------------------------------------------

ROTATE == "rotate"
FLIP == "flip"

\* Object.keys(PIECE_SHAPES) as a set
CatalogIds == {PieceOrder[i] : i \in 1..Len(PieceOrder)}

\* a shape of the catalog handed out mirrored
InitShapeMirrored ==
  /\ board = createBoard
  /\ outcome = OK
  /\ PageLoaded
  /\ catalogId \in CatalogIds
  /\ cells = flipPiece(PIECE_SHAPES[catalogId])
  /\ applied = << >>

\* a shape of the catalog, as getAllPieces hands it out
InitShape ==
  /\ board = createBoard
  /\ outcome = OK
  /\ PageLoaded
  /\ catalogId \in CatalogIds
  /\ cells = PIECE_SHAPES[catalogId]
  /\ applied = << >>

\* cells = BentoBlocks.rotatePiece(cells)
ApplyRotate ==
  /\ Len(applied) < MaxApplied
  /\ cells' = rotatePiece(cells)
  /\ applied' = Append(applied, ROTATE)
  /\ UNCHANGED << catalogId, board, outcome, pageVars >>

\* cells = BentoBlocks.flipPiece(cells)
ApplyFlip ==
  /\ Len(applied) < MaxApplied
  /\ cells' = flipPiece(cells)
  /\ applied' = Append(applied, FLIP)
  /\ UNCHANGED << catalogId, board, outcome, pageVars >>

NextShape ==
  \/ ApplyRotate
  \/ ApplyFlip

SpecShape == InitShape /\ [][NextShape]_vars

\* ------------------------------------------------------------------------
\* Vocabulary of the properties
\* ------------------------------------------------------------------------

\* the absolute cells of the resolved shape of piece anchored at (row, col)
Footprint(piece, row, col) ==
  LET shape == getTransformedShape(piece)
  IN {<<row + shape[i][1], col + shape[i][2]>> : i \in 1..Len(shape)}

OnBoard(b) == (0..(b.size - 1)) \X (0..(b.size - 1))

BoardCorners(b) == {0, b.size - 1} \X {0, b.size - 1}

DiagonalNeighbours(cell) ==
  {<<cell[1] + dr, cell[2] + dc>> : dr \in {-1, 1}, dc \in {-1, 1}}

OrthogonalNeighbours(cell) ==
  {<<cell[1] - 1, cell[2]>>, <<cell[1] + 1, cell[2]>>,
   <<cell[1], cell[2] - 1>>, <<cell[1], cell[2] + 1>>}

\* the cells of b owned by playerId
OwnedCells(b, playerId) ==
  {cell \in OnBoard(b) : b.grid[cell[1]][cell[2]] = playerId}

ActiveIds(b) == {b.players[i].id : i \in 1..Len(b.players)}

\* playerId is active on b and one of its pieces is marked used
HasUsedPiece(b, playerId) ==
  \E i \in 1..Len(b.players) :
    /\ b.players[i].id = playerId
    /\ \E k \in 1..Len(b.players[i].pieces) : b.players[i].pieces[k].used

\* every cell of the footprint is on the board and empty
FitsEmpty(b, piece, row, col) ==
  \A cell \in Footprint(piece, row, col) :
    cell \in OnBoard(b) /\ b.grid[cell[1]][cell[2]] = 0

\* this step is a successful placePiece: it appends one move to the history
IsPlacement == Len(board'.moveHistory) = Len(board.moveHistory) + 1

\* the absolute cells a move record covers
MoveCells(m) ==
  {<<m.position[1] + m.shape[i][1], m.position[2] + m.shape[i][2]>> :
     i \in 1..Len(m.shape)}

\* ------------------------------------------------------------------------
\* C1: for a player with no used piece on the board, canPlacePiece is true
\* exactly when the piece is unused, the player is active, the footprint lies
\* on the board on empty cells and covers one of the four board corners; and
\* placePiece succeeds in exactly those cases.
\* ------------------------------------------------------------------------

FirstPlacementRule(b, piece, row, col, playerId) ==
  /\ ~piece.used
  /\ playerId \in ActiveIds(b)
  /\ FitsEmpty(b, piece, row, col)
  /\ Footprint(piece, row, col) \cap BoardCorners(b) # {}

FirstPlacementIffCorner ==
  \A playerId \in PlayerArgs :
    ~HasUsedPiece(board, playerId) =>
      \A piece \in CallerPieces, row \in Coords, col \in Coords :
        LET rule == FirstPlacementRule(board, piece, row, col, playerId)
        IN /\ canPlacePiece(board, piece, row, col, playerId) <=> rule
           /\ ~placePieceThrows(board, piece, row, col, playerId) <=> rule

\* a first placement has been made on a corner, while another player with no
\* used piece is refused a placement that fits but misses every corner
FirstPlacementMade ==
  /\ outcome = OK
  /\ Len(board.moveHistory) = 1
  /\ LET m == board.lastMove[1]
     IN {<<m.position[1] + m.shape[i][1], m.position[2] + m.shape[i][2]>> :
           i \in 1..Len(m.shape)} \cap BoardCorners(board) # {}
  /\ \E playerId \in ActiveIds(board) \cap PlayerArgs :
       /\ ~HasUsedPiece(board, playerId)
       /\ \E piece \in CallerPieces, row \in Coords, col \in Coords :
            /\ ~piece.used
            /\ FitsEmpty(board, piece, row, col)
            /\ ~canPlacePiece(board, piece, row, col, playerId)

\* ------------------------------------------------------------------------
\* C2: for a player with at least one used piece, canPlacePiece is true
\* exactly when the piece is unused, the footprint lies on the board on empty
\* cells, some cell of it has a diagonal neighbour owned by that player and no
\* cell of it has an orthogonal neighbour owned by that player.
\* ------------------------------------------------------------------------

LaterPlacementRule(b, piece, row, col, playerId) ==
  /\ ~piece.used
  /\ FitsEmpty(b, piece, row, col)
  /\ \E cell \in Footprint(piece, row, col) :
       DiagonalNeighbours(cell) \cap OwnedCells(b, playerId) # {}
  /\ \A cell \in Footprint(piece, row, col) :
       OrthogonalNeighbours(cell) \cap OwnedCells(b, playerId) = {}

LaterPlacementIffCornerNoEdge ==
  \A playerId \in PlayerArgs :
    HasUsedPiece(board, playerId) =>
      \A piece \in CallerPieces, row \in Coords, col \in Coords :
        canPlacePiece(board, piece, row, col, playerId)
          <=> LaterPlacementRule(board, piece, row, col, playerId)

\* a player has made a second placement, and is now refused a placement that
\* fits and touches its cells both diagonally and by an edge
SecondPlacementMade ==
  /\ outcome = OK
  /\ Len(board.moveHistory) = 2
  /\ board.moveHistory[1].playerId = board.moveHistory[2].playerId
  /\ LET playerId == board.moveHistory[2].playerId
     IN \E piece \in CallerPieces, row \in Coords, col \in Coords :
          /\ ~piece.used
          /\ FitsEmpty(board, piece, row, col)
          /\ \E cell \in Footprint(piece, row, col) :
               DiagonalNeighbours(cell) \cap OwnedCells(board, playerId) # {}
          /\ \E cell \in Footprint(piece, row, col) :
               OrthogonalNeighbours(cell) \cap OwnedCells(board, playerId) # {}
          /\ ~canPlacePiece(board, piece, row, col, playerId)

\* ------------------------------------------------------------------------
\* C3: canPlacePiece for player p does not depend on the cells other players
\* own outside the footprint: on the board with every cell outside the
\* footprint that p does not own emptied, and on the board with every such
\* cell given to another player, it returns what it returns on the board.
\* ------------------------------------------------------------------------

\* b with every cell outside footprint that playerId does not own set to owner
Repaint(b, footprint, playerId, owner) ==
  [b EXCEPT !.grid =
     [r \in DOMAIN b.grid |-> [c \in DOMAIN b.grid[r] |->
        IF b.grid[r][c] = playerId \/ <<r, c>> \in footprint
        THEN b.grid[r][c] ELSE owner]]]

\* a player other than playerId
Opponent(playerId) == IF playerId = PLAYER_1 THEN PLAYER_2 ELSE PLAYER_1

\* the caller's pieces, one for each resolved shape of each piece: the first
\* orientation that gives the shape (canPlacePiece is evaluated on two more
\* boards for every call below)
OnePiecePerShape ==
  {p \in CallerPieces :
     ~\E q \in CallerPieces :
        /\ q.id = p.id /\ q.used = p.used
        /\ getTransformedShape(q) = getTransformedShape(p)
        /\ \/ q.rotation < p.rotation
           \/ q.rotation = p.rotation /\ ~q.flipped /\ p.flipped}

OpponentCellsDoNotMatter ==
  \A playerId \in PlayerArgs :
    \A piece \in OnePiecePerShape, row \in Coords, col \in Coords :
      LET onBoard == canPlacePiece(board, piece, row, col, playerId)
          footprint == Footprint(piece, row, col)
      IN \A owner \in {0, Opponent(playerId)} :
           canPlacePiece(Repaint(board, footprint, playerId, owner),
                         piece, row, col, playerId) = onBoard

\* a player with a used piece may place a piece that shares an edge with
\* another player's cell
PlacementBesideOpponent ==
  \E playerId \in PlayerArgs :
    /\ HasUsedPiece(board, playerId)
    /\ \E piece \in CallerPieces, row \in Coords, col \in Coords :
         /\ canPlacePiece(board, piece, row, col, playerId)
         /\ \E cell \in Footprint(piece, row, col) :
              \E n \in OrthogonalNeighbours(cell) \cap OnBoard(board) :
                board.grid[n[1]][n[2]] \notin {0, playerId}

\* ------------------------------------------------------------------------
\* C4: placePiece validates against the board it is given.  Every placement
\* it accepts satisfies canPlacePiece on the board of that call, every call
\* for which canPlacePiece holds on that board is accepted, and a call that
\* throws leaves the board (grid, pieces, scores, history, lastMove,
\* currentPlayer) as it was.
\* ------------------------------------------------------------------------

\* the move m is a call that canPlacePiece allows on b
MoveAllowedOn(b, m) ==
  \E piece \in CallerPieces :
    /\ piece.id = m.pieceId
    /\ getTransformedShape(piece) = m.shape
    /\ canPlacePiece(b, piece, m.position[1], m.position[2], m.playerId)

PlacePieceRevalidates ==
  /\ [](\A piece \in CallerPieces, row \in Coords, col \in Coords,
           playerId \in PlayerArgs :
           canPlacePiece(board, piece, row, col, playerId)
             => ~placePieceThrows(board, piece, row, col, playerId))
  /\ [][/\ IsPlacement => MoveAllowedOn(board, board'.lastMove[1])
        /\ outcome' = THROWN => board' = board]_vars

\* the call that made the last move is repeated on the board it produced, where
\* it is no longer valid, and throws
StaleCallRefused ==
  /\ outcome = THROWN
  /\ board.lastMove # << >>
  /\ LET m == board.lastMove[1]
     IN \E piece \in CallerPieces :
          /\ ~piece.used
          /\ piece.id = m.pieceId
          /\ getTransformedShape(piece) = m.shape
          /\ placePieceThrows(board, piece, m.position[1], m.position[2], m.playerId)

\* ------------------------------------------------------------------------
\* C8: a successful placePiece changes exactly the cells of the resolved
\* shape anchored at (row, col), from 0 to playerId; every other cell, every
\* other player, the other pieces of the placing player, the status and the
\* size stay as they were.
\* ------------------------------------------------------------------------

PlacementFrame ==
  [][IsPlacement =>
       LET m == board'.lastMove[1]
       IN /\ \A cell \in OnBoard(board) :
               IF cell \in MoveCells(m)
               THEN /\ board.grid[cell[1]][cell[2]] = 0
                    /\ board'.grid[cell[1]][cell[2]] = m.playerId
               ELSE board'.grid[cell[1]][cell[2]] = board.grid[cell[1]][cell[2]]
          /\ MoveCells(m) \subseteq OnBoard(board)
          /\ DOMAIN board'.grid = DOMAIN board.grid
          /\ Len(board'.players) = Len(board.players)
          /\ \A i \in 1..Len(board.players) :
               IF board.players[i].id # m.playerId
               THEN board'.players[i] = board.players[i]
               ELSE /\ board'.players[i].id = board.players[i].id
                    /\ Len(board'.players[i].pieces) = Len(board.players[i].pieces)
                    /\ \A k \in 1..Len(board.players[i].pieces) :
                         board.players[i].pieces[k].id # m.pieceId
                           => board'.players[i].pieces[k] = board.players[i].pieces[k]
          /\ board'.status = board.status
          /\ board'.size = board.size]_vars

\* a piece of two cells has been placed on a board that held another player's
\* cells
SecondPlayerPlaced ==
  /\ outcome = OK
  /\ Len(board.moveHistory) = 2
  /\ board.moveHistory[1].playerId # board.moveHistory[2].playerId
  /\ Len(board.lastMove[1].shape) = 2

\* ------------------------------------------------------------------------
\* C10: board.currentPlayer is always the id of a player in the board's
\* player list, for every player count and after every placement.
\* ------------------------------------------------------------------------

CurrentPlayerIsActive == board.currentPlayer \in ActiveIds(board)

\* the last player of a three-player game has placed and the turn has wrapped
\* round to the first
TurnWrapped ==
  /\ outcome = OK
  /\ board.status = IN_PROGRESS
  /\ Len(board.players) = 3
  /\ Len(board.moveHistory) = 2
  /\ board.lastMove[1].playerId = PLAYER_3
  /\ board.currentPlayer = PLAYER_1

\* ------------------------------------------------------------------------
\* C5: a player's piece of a given shape id is placed at most once: a
\* placePiece for a piece that is marked used on the board for that player
\* never succeeds, and no placePiece turns a used flag back to false.
\* ------------------------------------------------------------------------

PieceIsPlacedAtMostOnce ==
  [][IsPlacement =>
       LET m == board'.lastMove[1]
       IN \A i \in 1..Len(board.players) :
            \A k \in 1..Len(board.players[i].pieces) :
              board.players[i].pieces[k].used =>
                /\ board'.players[i].pieces[k].used
                /\ ~(/\ board.players[i].id = m.playerId
                     /\ board.players[i].pieces[k].id = m.pieceId)]_vars

\* ------------------------------------------------------------------------
\* C6: each player's score equals the sum of the cell counts of that
\* player's pieces that are marked used on the board.
\* ------------------------------------------------------------------------

\* the cell counts of the used pieces among the first n of pieces, summed
RECURSIVE UsedCellCount(_, _)
UsedCellCount(pieces, n) ==
  IF n = 0 THEN 0
  ELSE UsedCellCount(pieces, n - 1)
         + (IF pieces[n].used THEN Len(PIECE_SHAPES[pieces[n].id]) ELSE 0)

ScoreIsSumOfUsedPieces ==
  \A i \in 1..Len(board.players) :
    board.players[i].score
      = UsedCellCount(board.players[i].pieces, Len(board.players[i].pieces))

\* ------------------------------------------------------------------------
\* C7: when a placement leaves no active player with a legal move the status
\* becomes finished; a finished board stays finished and accepts no further
\* placePiece.
\* ------------------------------------------------------------------------

NoPlayerCanMove(b) ==
  \A i \in 1..Len(b.players) : ~canPlayerMove(b, b.players[i].id)

FinishedWhenNoMoveIsLeft ==
  [][/\ (IsPlacement /\ NoPlayerCanMove(board')) => board'.status = FINISHED
     /\ board.status = FINISHED => (board'.status = FINISHED /\ ~IsPlacement)]_vars

\* ------------------------------------------------------------------------
\* C9: every grid cell is 0 or the id of a player in the board's player
\* list, in every state reached by createBoard, startGame and placePiece.
\* ------------------------------------------------------------------------

CellsBelongToActivePlayers ==
  \A cell \in OnBoard(board) :
    board.grid[cell[1]][cell[2]] \in {0} \cup ActiveIds(board)

\* ------------------------------------------------------------------------
\* C11: moveHistory is append-only.  A successful placePiece appends exactly
\* one move, made of the player, the piece id, the anchor and the resolved
\* cells of that call, after the earlier entries, which stay as they were,
\* and sets lastMove to it; a placePiece that throws changes neither; no
\* other call on a board changes them.  So the history holds one entry for
\* each successful placement: its moves are the cells taken on the grid.
\* ------------------------------------------------------------------------

\* the cells of the grid of b that are not empty
TakenCells(b) == {cell \in OnBoard(b) : b.grid[cell[1]][cell[2]] # 0}

\* the moves of the history cover the taken cells, each cell once
HistoryCoversGrid(b) ==
  /\ UNION {MoveCells(b.moveHistory[n]) : n \in 1..Len(b.moveHistory)}
       = TakenCells(b)
  /\ \A n1, n2 \in 1..Len(b.moveHistory) :
       n1 # n2 => MoveCells(b.moveHistory[n1]) \cap MoveCells(b.moveHistory[n2]) = {}

MoveHistoryAppendOnly ==
  /\ [](HistoryCoversGrid(board) /\
        board.lastMove = IF board.moveHistory = << >> THEN << >>
                         ELSE << board.moveHistory[Len(board.moveHistory)] >>)
  /\ [][/\ IsPlacement =>
             LET m == board'.moveHistory[Len(board'.moveHistory)]
             IN /\ outcome' = OK
                /\ SubSeq(board'.moveHistory, 1, Len(board.moveHistory))
                     = board.moveHistory
                /\ board'.lastMove = << m >>
                /\ m.position \in Coords \X Coords
                /\ \E piece \in CallerPieces :
                     piece.id = m.pieceId /\ getTransformedShape(piece) = m.shape
                /\ MoveCells(m) = TakenCells(board') \ TakenCells(board)
                /\ \A cell \in MoveCells(m) :
                     board'.grid[cell[1]][cell[2]] = m.playerId
                /\ \E k \in 1..NumPieces :
                     /\ FindPlayer(board', m.playerId).pieces[k].id = m.pieceId
                     /\ FindPlayer(board', m.playerId).pieces[k].used
        /\ ~IsPlacement =>
             \/ board' = createBoard
             \/ /\ board'.moveHistory = board.moveHistory
                /\ board'.lastMove = board.lastMove
        /\ outcome' = THROWN =>
             /\ board'.moveHistory = board.moveHistory
             /\ board'.lastMove = board.lastMove]_vars

\* a placePiece has thrown on a board of two moves, which kept both
HistoryKeptAcrossFailure ==
  /\ outcome = THROWN
  /\ Len(board.moveHistory) = 2
  /\ board.moveHistory[1] # board.moveHistory[2]
  /\ board.lastMove = << board.moveHistory[2] >>

\* ------------------------------------------------------------------------
\* C12: for an active player p, getNextPlayer(board, p) is the id that
\* follows p in the board's player list, the first of the list after the
\* last, whether or not that player has a legal move; and after a successful
\* placePiece by p, board.currentPlayer is getNextPlayer(board, p).
\* ------------------------------------------------------------------------

\* the id after playerId in the player list of b, the first after the last
FollowerInList(b, playerId) ==
  LET i == CHOOSE i \in 1..Len(b.players) : b.players[i].id = playerId
  IN IF i = Len(b.players) THEN b.players[1].id ELSE b.players[i + 1].id

TurnOrderIsRoundRobin ==
  /\ [](\A playerId \in ActiveIds(board) :
          getNextPlayer(board, playerId) = FollowerInList(board, playerId))
  /\ [][IsPlacement =>
          LET m == board'.lastMove[1]
          IN /\ board'.currentPlayer = getNextPlayer(board, m.playerId)
             /\ board'.currentPlayer = getNextPlayer(board', m.playerId)
             /\ board'.currentPlayer = FollowerInList(board, m.playerId)]_vars

\* the last player of the list has placed and the turn went to the first,
\* who has no legal move while another player has one
TurnPassedToStuckPlayer ==
  /\ outcome = OK
  /\ board.status = IN_PROGRESS
  /\ board.lastMove # << >>
  /\ board.lastMove[1].playerId = board.players[Len(board.players)].id
  /\ board.currentPlayer = board.players[1].id
  /\ ~canPlayerMove(board, board.currentPlayer)
  /\ \E playerId \in ActiveIds(board) : canPlayerMove(board, playerId)

\* ------------------------------------------------------------------------
\* C13: isGameOver is false on a waiting board, true on a finished board
\* whatever the scores, and on a board in progress it is true exactly when
\* canPlayerMove is false for every active player.
\* ------------------------------------------------------------------------

\* b with its status set to status
WithStatus(b, status) == [b EXCEPT !.status = status]

\* b with the scores of its players exchanged for 0 and 1 in turn
WithOtherScores(b) ==
  [b EXCEPT !.players =
     [i \in 1..Len(b.players) |-> [b.players[i] EXCEPT !.score = i % 2]]]

GameOverByStatusAndMoves ==
  /\ ~isGameOver(WithStatus(board, WAITING))
  /\ isGameOver(WithStatus(board, FINISHED))
  /\ isGameOver(WithOtherScores(WithStatus(board, FINISHED)))
  /\ isGameOver(WithStatus(board, IN_PROGRESS))
       <=> \A playerId \in ActiveIds(board) :
             ~canPlayerMove(WithStatus(board, IN_PROGRESS), playerId)
  /\ isGameOver(board) = isGameOver(WithStatus(board, board.status))

\* a game in progress is over: no active player has a legal move left
GameOverReached ==
  /\ board.status = IN_PROGRESS
  /\ isGameOver(board)
  /\ \A playerId \in ActiveIds(board) : ~canPlayerMove(board, playerId)

\* ------------------------------------------------------------------------
\* C14: getWinner is null whenever isGameOver is false; when the game is
\* over it is the active players whose score is the highest score, each
\* once: several on a tie, and never none.
\* ------------------------------------------------------------------------

\* the players of b no other player of b outscores
TopScorers(b) ==
  {b.players[i] : i \in {i \in 1..Len(b.players) :
     \A j \in 1..Len(b.players) : b.players[j].score <= b.players[i].score}}

WinnersAreTopScorers ==
  \A status \in {WAITING, IN_PROGRESS, FINISHED} :
    LET b == WithStatus(board, status)
        winner == getWinner(b)
    IN IF ~isGameOver(b) THEN winner = << >>
       ELSE /\ Len(winner) = 1
            /\ winner[1] # << >>
            /\ {winner[1][i] : i \in 1..Len(winner[1])} = TopScorers(b)
            /\ Len(winner[1]) = Cardinality(TopScorers(b))

\* a game in progress is over with its two players tied on a score above 0
TiedGameOver ==
  /\ board.status = IN_PROGRESS
  /\ isGameOver(board)
  /\ Len(getWinner(board)[1]) = 2
  /\ getWinner(board)[1][1].score > 0

\* ------------------------------------------------------------------------
\* C15: canPlayerMove(board, playerId) is true exactly when playerId is an
\* active player and some piece of that player that is unused on the board,
\* with some rotation in 0..3 and some flip, can be placed at some position
\* of the board; the rotation and flip stored on the pieces play no part.
\* ------------------------------------------------------------------------

\* some unused piece of playerId on b fits somewhere in some orientation
SomePlacementExists(b, playerId) ==
  /\ playerId \in ActiveIds(b)
  /\ \E i \in 1..Len(b.players) :
       /\ b.players[i].id = playerId
       /\ \E k \in 1..Len(b.players[i].pieces) :
            /\ ~b.players[i].pieces[k].used
            /\ \E rotation \in 0..3, flipped \in BOOLEAN :
                 \E cell \in OnBoard(b) :
                   canPlacePiece(b, [id |-> b.players[i].pieces[k].id,
                                     used |-> FALSE,
                                     rotation |-> rotation,
                                     flipped |-> flipped],
                                 cell[1], cell[2], playerId)

\* b with every piece of every player stored as turned and flipped this way
WithStoredOrientation(b, rotation, flipped) ==
  [b EXCEPT !.players =
     [i \in 1..Len(b.players) |->
        [b.players[i] EXCEPT !.pieces =
           [k \in 1..Len(b.players[i].pieces) |->
              [b.players[i].pieces[k] EXCEPT !.rotation = rotation,
                                             !.flipped = flipped]]]]]

PlayerCanMoveIffSomePlacement ==
  \A playerId \in PlayerArgs :
    LET can == canPlayerMove(board, playerId)
    IN /\ can <=> SomePlacementExists(board, playerId)
       /\ \A rotation \in Rotations, flipped \in BOOLEAN :
            canPlayerMove(WithStoredOrientation(board, rotation, flipped), playerId)
              = can

\* a player can move, but only with a piece turned away from the way it is
\* stored
MoveNeedsTurnedPiece ==
  \E playerId \in ActiveIds(board) :
    /\ HasUsedPiece(board, playerId)
    /\ canPlayerMove(board, playerId)
    /\ ~canPlayerMoveAsStored(board, playerId)

\* ------------------------------------------------------------------------
\* C16: startGame(board, playerCount) throws when the board is absent or
\* playerCount is outside 2..4, and then changes nothing; otherwise the board
\* it returns has exactly playerCount players, the first playerCount of the
\* player list with their scores and pieces, currentPlayer the first of
\* them, status in_progress, and the grid and history of the board given.
\* ------------------------------------------------------------------------

StartGameGivesPlayerCountPlayers ==
  /\ [](\A playerCount \in PlayerCounts :
          /\ \A absent \in BOOLEAN :
               startGameThrows(absent, playerCount)
                 <=> (absent \/ playerCount \notin 2..4)
          /\ ~startGameThrows(FALSE, playerCount) =>
               LET started == startGame(board, playerCount)
               IN /\ Len(started.players) = playerCount
                  /\ \A i \in 1..playerCount : started.players[i] = board.players[i]
                  /\ started.currentPlayer = started.players[1].id
                  /\ started.status = IN_PROGRESS
                  /\ started.grid = board.grid
                  /\ started.size = board.size
                  /\ started.moveHistory = board.moveHistory
                  /\ started.lastMove = board.lastMove)
  /\ [][outcome' = THROWN => board' = board]_vars

\* ------------------------------------------------------------------------
\* C17: the queries answer "does not apply" without an error: canPlacePiece
\* and canPlayerMove are false when playerId is not an active player and
\* when the status of the board is not in_progress, and getWinner is null
\* when the game is not over.
\* ------------------------------------------------------------------------

QueriesRefuseWhenNotApplicable ==
  /\ \A playerId \in PlayerArgs :
       (playerId \notin ActiveIds(board) \/ board.status # IN_PROGRESS) =>
         /\ ~canPlayerMove(board, playerId)
         /\ \A piece \in CallerPieces, row \in Coords, col \in Coords :
              ~canPlacePiece(board, piece, row, col, playerId)
  /\ ~isGameOver(board) => getWinner(board) = << >>

\* ------------------------------------------------------------------------
\* C19: for every shape of the catalog, rotatePiece applied four times in
\* succession gives the same set of offsets as the shape.
\* ------------------------------------------------------------------------

\* the offsets of a shape as a set
OffsetSet(shape) == {shape[i] : i \in 1..Len(shape)}

FourRotationsRestoreShape ==
  applied = << ROTATE, ROTATE, ROTATE, ROTATE >>
    => OffsetSet(cells) = OffsetSet(PIECE_SHAPES[catalogId])

\* F5, which no rotation short of four maps to itself, has been rotated four
\* times
F5RotatedFourTimes ==
  /\ catalogId = "F5"
  /\ applied = << ROTATE, ROTATE, ROTATE, ROTATE >>
  /\ \A n \in 1..3 :
       OffsetSet(RotateTimes(PIECE_SHAPES[catalogId], n))
         # OffsetSet(PIECE_SHAPES[catalogId])

\* ------------------------------------------------------------------------
\* C20: for every shape of the catalog, and every rotation of it, flipPiece
\* applied twice gives the same set of offsets as the shape it was applied
\* to.
\* ------------------------------------------------------------------------

\* n times ROTATE
Rotated(n) == [i \in 1..n |-> ROTATE]

TwoFlipsRestoreShape ==
  \A n \in 0..3 :
    applied = Rotated(n) \o << FLIP, FLIP >>
      => OffsetSet(cells) = OffsetSet(RotateTimes(PIECE_SHAPES[catalogId], n))

\* F5, which its mirror image differs from, has been rotated three times and
\* flipped twice
F5FlippedTwice ==
  /\ catalogId = "F5"
  /\ applied = Rotated(3) \o << FLIP, FLIP >>
  /\ OffsetSet(flipPiece(RotateTimes(PIECE_SHAPES[catalogId], 3)))
       # OffsetSet(RotateTimes(PIECE_SHAPES[catalogId], 3))

\* ------------------------------------------------------------------------
\* C18: a board the engine returned is never changed afterwards: whatever
\* the page does (select, turn, flip, click on a cell), the grid, the
\* pieces' used, rotation and flipped, the scores and the history of the
\* board it holds stay as the engine returned them, and the page changes the
\* game state only by replacing its board with the result of placePiece.
\* The variable board holds what is reachable from the page's reference, so
\* a step that changes it otherwise is a write into a returned board.
\* ------------------------------------------------------------------------

BoardChangesOnlyByPlacePiece ==
  [][board' # board =>
       \E piece \in CallerPieces, row \in Coords, col \in Coords,
          playerId \in ActiveIds(board) :
         /\ canPlacePiece(board, piece, row, col, playerId)
         /\ board' = placePiece(board, piece, row, col, playerId)]_vars

\* ------------------------------------------------------------------------
\* C22: in every reachable state, two different moves of the history made by
\* the same player have no cell of one orthogonally adjacent to a cell of
\* the other, and every move of a player other than that player's first has
\* a cell diagonally adjacent to a cell of an earlier move of that player.
\* ------------------------------------------------------------------------

\* some cell of the set one has an orthogonal neighbour in the set other
SharesEdge(one, other) ==
  \E cell \in one : OrthogonalNeighbours(cell) \cap other # {}

\* some cell of the set one has a diagonal neighbour in the set other
SharesCorner(one, other) ==
  \E cell \in one : DiagonalNeighbours(cell) \cap other # {}

OwnMovesTouchByCornersOnly ==
  LET h == board.moveHistory
  IN \A n \in 1..Len(h) :
       LET earlier == {k \in 1..(n - 1) : h[k].playerId = h[n].playerId}
       IN /\ \A k \in earlier : ~SharesEdge(MoveCells(h[n]), MoveCells(h[k]))
          /\ earlier # {} =>
               \E k \in earlier : SharesCorner(MoveCells(h[n]), MoveCells(h[k]))

\* a player has made two moves, the second of two cells, while a cell next to
\* the first move by an edge was empty
SecondMoveKeptOffOwnEdge ==
  /\ Len(board.moveHistory) = 2
  /\ board.moveHistory[1].playerId = board.moveHistory[2].playerId
  /\ Len(board.moveHistory[2].shape) = 2
  /\ \E cell \in OnBoard(board) :
       /\ board.grid[cell[1]][cell[2]] = 0
       /\ OrthogonalNeighbours(cell) \cap MoveCells(board.moveHistory[1]) # {}

\* ------------------------------------------------------------------------
\* C23: cell ownership is monotone: on a board, across placePiece calls (and
\* startGame), a grid cell that is not 0 keeps its value, so the cells of
\* any two moves of the history are disjoint.
\* ------------------------------------------------------------------------

CellsNeverChangeOwner ==
  /\ [](\A n1, n2 \in 1..Len(board.moveHistory) :
          n1 # n2 => MoveCells(board.moveHistory[n1])
                       \cap MoveCells(board.moveHistory[n2]) = {})
  /\ [][board' # createBoard =>
          \A cell \in OnBoard(board) :
            board.grid[cell[1]][cell[2]] # 0 =>
              board'.grid[cell[1]][cell[2]] = board.grid[cell[1]][cell[2]]]_vars

\* a placement over a taken cell, at a board corner the player could
\* otherwise start from, has been refused
PlacementOverTakenCellRefused ==
  /\ outcome = THROWN
  /\ \E playerId \in ActiveIds(board) \cap PlayerArgs :
       /\ ~HasUsedPiece(board, playerId)
       /\ \E cell \in BoardCorners(board) :
            /\ board.grid[cell[1]][cell[2]] \notin {0, playerId}
            /\ placePieceThrows(board, getAllPieces[1], cell[1], cell[2], playerId)

\* ------------------------------------------------------------------------
\* C24: in every reachable state, the score of each active player is the
\* number of grid cells whose value is that player's id.
\* ------------------------------------------------------------------------

ScoreIsOwnedCellCount ==
  \A i \in 1..Len(board.players) :
    board.players[i].score = Cardinality(OwnedCells(board, board.players[i].id))

\* an active player has a score of two or more on a board that also holds
\* cells of a player that a later startGame left out
ScoredBesideLeftOutPlayer ==
  /\ outcome = OK
  /\ \E i \in 1..Len(board.players) : board.players[i].score >= 2
  /\ \E cell \in OnBoard(board) :
       board.grid[cell[1]][cell[2]] \notin {0} \cup ActiveIds(board)

\* ------------------------------------------------------------------------
\* C26: each successful placePiece by a player lowers that player's count of
\* unused pieces on the board by exactly one, so the number of moves by a
\* player plus that player's count of unused pieces is always the size of
\* the piece set (21 in the source, NumPieces here) and no player makes more
\* placements than that.
\* ------------------------------------------------------------------------

\* the moves of the history of b made by playerId
MovesBy(b, playerId) ==
  Cardinality({n \in 1..Len(b.moveHistory) : b.moveHistory[n].playerId = playerId})

\* player.pieces.filter(piece => !piece.used).length
UnusedCount(player) ==
  Cardinality({k \in 1..Len(player.pieces) : ~player.pieces[k].used})

MovesPlusUnusedIsPieceCount ==
  /\ [](\A i \in 1..Len(board.players) :
          /\ MovesBy(board, board.players[i].id) + UnusedCount(board.players[i])
               = NumPieces
          /\ MovesBy(board, board.players[i].id) <= NumPieces)
  /\ [][IsPlacement =>
          \A i \in 1..Len(board.players) :
            UnusedCount(board'.players[i])
              = UnusedCount(board.players[i])
                  - (IF board.players[i].id = board'.lastMove[1].playerId
                     THEN 1 ELSE 0)]_vars

\* ------------------------------------------------------------------------
\* C27, as stated: every entry of the piece catalog has (0,0) as its first
\* cell.
\* ------------------------------------------------------------------------

CatalogEntriesStartAtOrigin ==
  applied = << >> => cells[1] = <<0, 0>>

\* ------------------------------------------------------------------------
\* C27, as the catalog is: every entry has 0 as its least row offset and as
\* its least column offset; every entry but X5 and F5 has (0,0) as its first
\* cell; X5 and F5 have (1,0) as their first cell and no cell (0,0).
\* ------------------------------------------------------------------------

CatalogEntriesStartAtOriginButX5F5 ==
  applied = << >> =>
    /\ MathMin([i \in 1..Len(cells) |-> cells[i][1]]) = 0
    /\ MathMin([i \in 1..Len(cells) |-> cells[i][2]]) = 0
    /\ IF catalogId \in {"X5", "F5"}
       THEN cells[1] = <<1, 0>> /\ <<0, 0>> \notin OffsetSet(cells)
       ELSE cells[1] = <<0, 0>>

\* the entry X5 of the catalog, untransformed, whose first cell is not (0,0)
X5HandedOut ==
  /\ catalogId = "X5"
  /\ applied = << >>
  /\ cells[1] # <<0, 0>>

\* ------------------------------------------------------------------------
\* C21: in play driven through the page (handleBoardClick), whenever the
\* board is in progress and isGameOver is false, the player whose turn it is
\* has at least one legal placement, so play never rests on a player who
\* has no move while another player still has one.
\* ------------------------------------------------------------------------

CurrentPlayerCanMoveUntilGameOver ==
  (board.status = IN_PROGRESS /\ ~isGameOver(board))
    => canPlayerMove(board, currentPlayer)

\* ------------------------------------------------------------------------
\* C25: after every handleBoardClick, successful or not, the page's own
\* currentPlayer equals gameBoard.currentPlayer; the moves of moveHistory are
\* made by the players of the game in strict rotation starting with player
\* 1; and a refused click leaves gameBoard, currentPlayer and the selected
\* piece as they were.
\* ------------------------------------------------------------------------

PageTurnFollowsBoard ==
  /\ [](/\ currentPlayer = board.currentPlayer
        /\ \A n \in 1..Len(board.moveHistory) :
             board.moveHistory[n].playerId
               = board.players[((n - 1) % Len(board.players)) + 1].id
        /\ board.moveHistory # << >> =>
             board.moveHistory[1].playerId = PLAYER_1)
  /\ [][(outcome # REFUSED /\ outcome' = REFUSED) =>
          /\ board' = board
          /\ currentPlayer' = currentPlayer
          /\ selectedPiece' = selectedPiece]_vars

\* every player has placed once, player 1 has placed again, and a click of
\* player 2 has then been refused
RefusedClickAfterFullRound ==
  /\ Len(board.moveHistory) = Len(board.players) + 1
  /\ board.moveHistory[Len(board.players) + 1].playerId = PLAYER_1
  /\ currentPlayer = PLAYER_2
  /\ outcome = REFUSED

====
